---- MODULE Spec2Model ----
(***************************************************************************)
(* Model of the business rules of the altavista condominium backend:       *)
(* reservations of common areas, maintenance state machine, administration *)
(* fees and payments, the income/expense ledger and the reserve fund.      *)
(* Dates are day numbers, times are hour numbers, amounts are integers in  *)
(* the smallest stored unit.  A nullable numeric field holds None (-1).    *)
(***************************************************************************)
EXTENDS Integers, Sequences, FiniteSets, TLC

\* ---------------------------------------------------------------- bounds
MaxFecha == 1
MaxHora == 2
MaxReservas == 2

None == -1
Fechas == 0..MaxFecha
Horas == 0..MaxHora
Tarifa == 5

VARIABLES
    hoy,        \* timezone.now().date()
    area,       \* the AreaComun row the reservations belong to
    reservas,   \* Reserva rows, by pk
    mants,      \* Mantenimiento rows, by pk
    ledger,     \* IngresoGasto rows, by pk
    pagos,      \* PagoAdministracion rows, by pk
    objs,       \* PagoAdministracion instances held in memory
    fondo,      \* a FondoReserva object, its stored amount, its MovimientoFondo rows
    cuota,      \* a CuotaAdministracion and the Vivienda it is computed for
    prog,       \* a ProgramacionMantenimiento row
    incidencias,\* Incidencia rows, by pk
    cuotas,     \* CuotaAdministracion rows
    config,     \* the ConfiguracionReservas row
    ret         \* what the last call returned

vars == <<hoy, area, reservas, mants, ledger, pagos, objs, fondo, cuota,
          prog, incidencias, cuotas, config, ret>>

\* the parts of the state a subsystem does not use
AreaIdle == area = [requiere_reserva |-> FALSE, esta_activa |-> TRUE,
                    horario_apertura |-> None, horario_cierre |-> None, tarifa |-> 0]
FondoIdle == fondo = [monto_actual |-> 0, guardado |-> 0, movimientos |-> <<>>]
CuotaIdle == cuota = [valor_base |-> 0, fecha_vencimiento |-> 0, recargo_mora |-> 0,
                      coeficiente_propiedad |-> 0]
ProgIdle == prog = [activa |-> FALSE, frecuencia |-> "diaria", dia_semana |-> None,
                    dia_mes |-> None, mes |-> None, ultima_generacion |-> None]
\* the field defaults of ConfiguracionReservas
ConfigIdle == config = [dias_anticipacion_min |-> 1, dias_anticipacion_max |-> 30,
                        duracion_maxima_horas |-> 4, reservas_max_semana |-> 2]
OtrosIdle == ProgIdle /\ ConfigIdle /\ incidencias = <<>> /\ cuotas = {}

\* the value returned by the last call: operation, arguments, result
Ret(op, args, val) == [op |-> op, args |-> args, val |-> val]
Bool(b) == IF b THEN "True" ELSE "False"

\* ============================================================ AreaComun
AreaComun == [requiere_reserva : BOOLEAN, esta_activa : BOOLEAN,
              horario_apertura : {None, 1}, horario_cierre : {None, MaxHora - 1},
              tarifa : {0, Tarifa}]

ESTADO_CHOICES_Reserva == {"pendiente", "confirmada", "cancelada", "completada", "no_asistio"}

\* Q(hora_inicio__lt=hora_fin, hora_fin__gt=hora_inicio)
Caso1(r, hora_inicio, hora_fin) == r.hora_inicio < hora_fin /\ r.hora_fin > hora_inicio
\* the second Q object repeats the first
Caso2(r, hora_inicio, hora_fin) == r.hora_inicio < hora_fin /\ r.hora_fin > hora_inicio
\* Q(hora_inicio__lte=F("hora_inicio"), hora_fin__gte=F("hora_fin")): F() names
\* the column of the row under test, so the row is compared with itself
Caso3(r, hora_inicio, hora_fin) == r.hora_inicio <= r.hora_inicio /\ r.hora_fin >= r.hora_fin

colisiones(fecha, hora_inicio, hora_fin) ==
    \E i \in DOMAIN reservas :
        /\ reservas[i].fecha_reserva = fecha
        /\ reservas[i].estado = "confirmada"
        /\ \/ Caso1(reservas[i], hora_inicio, hora_fin)
           \/ Caso2(reservas[i], hora_inicio, hora_fin)
           \/ Caso3(reservas[i], hora_inicio, hora_fin)

esta_disponible(fecha, hora_inicio, hora_fin) ==
    IF ~area.requiere_reserva \/ ~area.esta_activa THEN FALSE
    ELSE IF \/ (area.horario_apertura # None /\ hora_inicio < area.horario_apertura)
            \/ (area.horario_cierre # None /\ hora_fin > area.horario_cierre)
         THEN FALSE
    ELSE ~colisiones(fecha, hora_inicio, hora_fin)

\* ============================================================== Reserva
\* Reserva.clean for a new reservation (no pk): TRUE when no ValidationError
clean(fecha, hora_inicio, hora_fin) ==
    /\ ~(hora_inicio >= hora_fin)
    /\ ~(fecha < hoy)
    /\ area.requiere_reserva
    /\ esta_disponible(fecha, hora_inicio, hora_fin)

\* Meta.unique_together = [area, fecha_reserva, hora_inicio]
unique_together(fecha, hora_inicio) ==
    ~\E i \in DOMAIN reservas :
        reservas[i].fecha_reserva = fecha /\ reservas[i].hora_inicio = hora_inicio

\* Reserva.save: stamps the confirmation date and copies the area's fee
ReservaSave(r) ==
    LET r1 == IF r.estado = "confirmada" /\ r.fecha_confirmacion = None
              THEN [r EXCEPT !.fecha_confirmacion = hoy] ELSE r
    IN  IF area.tarifa > 0 /\ r1.costo = 0 THEN [r1 EXCEPT !.costo = area.tarifa] ELSE r1

Observaciones == {"None", "obs"}
\* the note passed to confirmar and cancelar
ObservacionesReserva == {"obs"}
Empleados == {"e1"}

\* creation of a reservation that passed clean, stored with the default estado
CrearReserva(fecha, hora_inicio, hora_fin) ==
    /\ Len(reservas) < MaxReservas
    /\ clean(fecha, hora_inicio, hora_fin)
    /\ unique_together(fecha, hora_inicio)
    /\ reservas' = Append(reservas,
          ReservaSave([fecha_reserva |-> fecha, hora_inicio |-> hora_inicio,
                       hora_fin |-> hora_fin, estado |-> "pendiente",
                       observaciones |-> <<>>, confirmada_por |-> "None",
                       fecha_confirmacion |-> None, costo |-> 0, pagada |-> FALSE]))
    /\ ret' = Ret("crear", <<>>, "True")
    /\ UNCHANGED <<hoy, area, mants, ledger, pagos, objs, fondo, cuota, prog, incidencias, cuotas, config>>

\* a creation that clean rejects stores nothing
CrearReservaRechazada ==
    /\ \E fecha \in Fechas, hora_inicio \in Horas, hora_fin \in Horas :
          ~clean(fecha, hora_inicio, hora_fin)
    /\ ret' = Ret("crear", <<>>, "ValidationError")
    /\ UNCHANGED <<hoy, area, reservas, mants, ledger, pagos, objs, fondo, cuota, prog, incidencias, cuotas, config>>

Nota(obs, etiqueta, observacion) ==
    IF observacion # "None" THEN Append(obs, <<etiqueta, observacion>>) ELSE obs

\* a bug that lets a finished reservation be cancelled
cancelable_mut(r) == r.estado \in {"pendiente", "confirmada", "completada"}

\* the guard of Reserva.cancelar
cancelable(r) == r.estado \in {"pendiente", "confirmada"}

cancelar(i, observacion) ==
    /\ i \in DOMAIN reservas
    /\ IF ~cancelable(reservas[i])
       THEN /\ ret' = Ret("cancelar", <<>>, "False")
            /\ UNCHANGED reservas
       ELSE /\ reservas' = [reservas EXCEPT ![i] =
                 ReservaSave([@ EXCEPT !.estado = "cancelada",
                     !.observaciones = Nota(@, "Cancelación", observacion)])]
            /\ ret' = Ret("cancelar", <<>>, "True")
    /\ UNCHANGED <<hoy, area, mants, ledger, pagos, objs, fondo, cuota, prog, incidencias, cuotas, config>>

confirmar(i, empleado, observacion) ==
    /\ i \in DOMAIN reservas
    /\ IF reservas[i].estado # "pendiente"
       THEN /\ ret' = Ret("confirmar", <<>>, "False")
            /\ UNCHANGED reservas
       ELSE /\ reservas' = [reservas EXCEPT ![i] =
                 ReservaSave([@ EXCEPT !.estado = "confirmada",
                     !.confirmada_por = empleado,
                     !.fecha_confirmacion = hoy,
                     !.observaciones = Nota(@, "Confirmación", observacion)])]
            /\ ret' = Ret("confirmar", <<>>, "True")
    /\ UNCHANGED <<hoy, area, mants, ledger, pagos, objs, fondo, cuota, prog, incidencias, cuotas, config>>

marcar_completada(i) ==
    /\ i \in DOMAIN reservas
    /\ IF reservas[i].estado # "confirmada"
       THEN /\ ret' = Ret("marcar_completada", <<>>, "False")
            /\ UNCHANGED reservas
       ELSE /\ reservas' = [reservas EXCEPT ![i] =
                 ReservaSave([@ EXCEPT !.estado = "completada"])]
            /\ ret' = Ret("marcar_completada", <<>>, "True")
    /\ UNCHANGED <<hoy, area, mants, ledger, pagos, objs, fondo, cuota, prog, incidencias, cuotas, config>>

marcar_no_asistio(i) ==
    /\ i \in DOMAIN reservas
    /\ IF reservas[i].estado # "confirmada"
       THEN /\ ret' = Ret("marcar_no_asistio", <<>>, "False")
            /\ UNCHANGED reservas
       ELSE /\ reservas' = [reservas EXCEPT ![i] =
                 ReservaSave([@ EXCEPT !.estado = "no_asistio"])]
            /\ ret' = Ret("marcar_no_asistio", <<>>, "True")
    /\ UNCHANGED <<hoy, area, mants, ledger, pagos, objs, fondo, cuota, prog, incidencias, cuotas, config>>

\* get_object() of a viewset whose filterset_fields name a field the model
\* does not have: DjangoFilterBackend raises TypeError while it builds the
\* FilterSet; a release of django-filter that does not read filterset_fields
\* returns the row. The repository pins no release.
get_object == {"TypeError", "None"}

\* POST reservas/<pk>/confirmar/: sets the estado and saves, without calling
\* Reserva.confirmar; confirmada_por stays unset and no note is written; the
\* response serializer names fields Reserva does not have
ReservaViewSet_confirmar(i, exc) ==
    /\ i \in DOMAIN reservas
    /\ IF exc # "None"
       THEN /\ ret' = Ret("http_confirmar", <<>>, exc)
            /\ UNCHANGED reservas
       ELSE IF reservas[i].estado # "pendiente"
       THEN /\ ret' = Ret("http_confirmar", <<>>, "400")
            /\ UNCHANGED reservas
       ELSE /\ reservas' = [reservas EXCEPT ![i] =
                 ReservaSave([@ EXCEPT !.estado = "confirmada"])]
            /\ ret' = Ret("http_confirmar", <<>>, "ImproperlyConfigured")
    /\ UNCHANGED <<hoy, area, mants, ledger, pagos, objs, fondo, cuota, prog, incidencias, cuotas, config>>

\* POST reservas/<pk>/cancelar/: sets the estado and saves, without calling
\* Reserva.cancelar; the note is tagged CANCELACIÓN; the response serializer
\* names fields Reserva does not have
ReservaViewSet_cancelar(i, motivo, exc) ==
    /\ i \in DOMAIN reservas
    /\ IF exc # "None"
       THEN /\ ret' = Ret("http_cancelar", <<>>, exc)
            /\ UNCHANGED reservas
       ELSE IF reservas[i].estado \notin {"pendiente", "confirmada"}
       THEN /\ ret' = Ret("http_cancelar", <<>>, "400")
            /\ UNCHANGED reservas
       ELSE /\ reservas' = [reservas EXCEPT ![i] =
                 ReservaSave([@ EXCEPT !.estado = "cancelada",
                     !.observaciones = Nota(@, "CANCELACIÓN", motivo)])]
            /\ ret' = Ret("http_cancelar", <<>>, "ImproperlyConfigured")
    /\ UNCHANGED <<hoy, area, mants, ledger, pagos, objs, fondo, cuota, prog, incidencias, cuotas, config>>

\* AreaComun.esta_disponible called with a date and two times, as Reserva.clean
\* calls it
EstaDisponible(fecha, hora_inicio, hora_fin) ==
    /\ ret' = Ret("esta_disponible", <<fecha, hora_inicio, hora_fin>>,
                  Bool(esta_disponible(fecha, hora_inicio, hora_fin)))
    /\ UNCHANGED <<hoy, area, reservas, mants, ledger, pagos, objs, fondo, cuota, prog, incidencias, cuotas, config>>

\* esta_disponible called with the strings of request.POST: the comparison of
\* a string with the opening or the closing time raises TypeError; the query
\* of the reservations takes the strings
esta_disponible_POST(fecha, hora_inicio, hora_fin) ==
    IF ~area.requiere_reserva \/ ~area.esta_activa THEN "False"
    ELSE IF area.horario_apertura # None \/ area.horario_cierre # None THEN "TypeError"
    ELSE Bool(~colisiones(fecha, hora_inicio, hora_fin))

Metodos == {"GET", "POST"}

\* verificar_disponibilidad: a request other than POST is answered 405; the
\* view catches ValueError only, so the TypeError leaves it
ConsultarDisponibilidad(metodo, fecha, hora_inicio, hora_fin) ==
    /\ ret' = Ret("verificar_disponibilidad", <<metodo, fecha, hora_inicio, hora_fin>>,
                  IF metodo # "POST" THEN "405"
                  ELSE esta_disponible_POST(fecha, hora_inicio, hora_fin))
    /\ UNCHANGED <<hoy, area, reservas, mants, ledger, pagos, objs, fondo, cuota, prog, incidencias, cuotas, config>>

InitReserva ==
    /\ hoy = MaxFecha
    /\ area \in AreaComun
    /\ reservas = <<>>
    /\ mants = <<>> /\ ledger = <<>> /\ pagos = <<>> /\ objs = <<>>
    /\ FondoIdle /\ CuotaIdle
    /\ OtrosIdle
    /\ ret = Ret("init", <<>>, "None")

NextReserva ==
    \/ \E f \in Fechas, hi \in Horas, hf \in Horas : CrearReserva(f, hi, hf)
    \/ CrearReservaRechazada
    \/ \E i \in 1..MaxReservas, o \in ObservacionesReserva : cancelar(i, o)
    \/ \E i \in 1..MaxReservas, e \in Empleados, o \in ObservacionesReserva : confirmar(i, e, o)
    \/ \E i \in 1..MaxReservas : marcar_completada(i)
    \/ \E i \in 1..MaxReservas : marcar_no_asistio(i)
    \/ \E i \in 1..MaxReservas, x \in get_object : ReservaViewSet_confirmar(i, x)
    \/ \E i \in 1..MaxReservas, o \in ObservacionesReserva, x \in get_object :
          ReservaViewSet_cancelar(i, o, x)

SpecReserva == InitReserva /\ [][NextReserva]_vars

\* creation and the four methods of Reserva, without the HTTP actions that
\* write the estado themselves
NextMetodosReserva ==
    \/ \E f \in Fechas, hi \in Horas, hf \in Horas : CrearReserva(f, hi, hf)
    \/ CrearReservaRechazada
    \/ \E i \in 1..MaxReservas, o \in ObservacionesReserva : cancelar(i, o)
    \/ \E i \in 1..MaxReservas, e \in Empleados, o \in ObservacionesReserva : confirmar(i, e, o)
    \/ \E i \in 1..MaxReservas : marcar_completada(i)
    \/ \E i \in 1..MaxReservas : marcar_no_asistio(i)

SpecMetodosReserva == InitReserva /\ [][NextMetodosReserva]_vars

\* the reservations together with the availability queries on them
NextDisponibilidad ==
    \/ NextReserva
    \/ \E f \in Fechas, hi \in Horas, hf \in Horas : EstaDisponible(f, hi, hf)
    \/ \E m \in Metodos, f \in Fechas, hi \in Horas, hf \in Horas :
          ConsultarDisponibilidad(m, f, hi, hf)

SpecDisponibilidad == InitReserva /\ [][NextDisponibilidad]_vars

\* ------------------------------------------------------- claims, Reserva
Traslape(a, b) == a.hora_inicio < b.hora_fin /\ b.hora_inicio < a.hora_fin

\* what the documentation of esta_disponible promises for (fecha, hi, hf)
DisponibleSegunContrato(fecha, hora_inicio, hora_fin) ==
    /\ area.requiere_reserva /\ area.esta_activa
    /\ area.horario_apertura # None => ~(hora_inicio < area.horario_apertura)
    /\ area.horario_cierre # None => ~(hora_fin > area.horario_cierre)
    /\ ~\E i \in DOMAIN reservas :
          /\ reservas[i].fecha_reserva = fecha
          /\ reservas[i].estado = "confirmada"
          /\ reservas[i].hora_inicio < hora_fin
          /\ reservas[i].hora_fin > hora_inicio

\* C1: esta_disponible(fecha, hora_inicio, hora_fin) returns True exactly when
\* the area takes reservations and is active, the range lies within the opening
\* hours that are set, and no confirmed reservation of that date overlaps the
\* range; in every other case it returns False.
C1_EstaDisponibleExacta ==
    ret.op = "esta_disponible" =>
        ret.val = Bool(DisponibleSegunContrato(ret.args[1], ret.args[2], ret.args[3]))

\* C2: no two confirmed reservations of the same area and date overlap.
C2_ConfirmadasSinTraslape ==
    \A i \in DOMAIN reservas : \A j \in DOMAIN reservas :
        (/\ i # j
         /\ reservas[i].estado = "confirmada" /\ reservas[j].estado = "confirmada"
         /\ reservas[i].fecha_reserva = reservas[j].fecha_reserva)
        => ~Traslape(reservas[i], reservas[j])

TransicionesReserva ==
    {<<"pendiente", "confirmada">>, <<"pendiente", "cancelada">>,
     <<"confirmada", "cancelada">>, <<"confirmada", "completada">>,
     <<"confirmada", "no_asistio">>}
MetodosReserva == {"confirmar", "cancelar", "marcar_completada", "marcar_no_asistio"}
FinalesReserva == {"cancelada", "completada", "no_asistio"}

\* C3: under confirmar, cancelar, marcar_completada and marcar_no_asistio the
\* estado of a reservation changes only along the five declared transitions; a
\* call that returns False leaves every field of every reservation unchanged;
\* a call returns True only when it moved a reservation; and a reservation in
\* cancelada, completada or no_asistio never changes again.
C3_TransicionesReserva ==
    [][/\ \A i \in DOMAIN reservas :
           /\ reservas'[i].estado # reservas[i].estado
                 => <<reservas[i].estado, reservas'[i].estado>> \in TransicionesReserva
           /\ reservas[i].estado \in FinalesReserva => reservas'[i] = reservas[i]
       /\ (ret'.op \in MetodosReserva /\ ret'.val = "False") => reservas' = reservas
       /\ (ret'.op \in MetodosReserva /\ ret'.val = "True")
             => \E i \in DOMAIN reservas : reservas'[i].estado # reservas[i].estado
      ]_vars

\* a completed and a cancelled reservation, and a call that was refused
C3_Witness ==
    /\ ret.op \in MetodosReserva /\ ret.val = "False"
    /\ \E i \in DOMAIN reservas : reservas[i].estado = "completada"
    /\ \E i \in DOMAIN reservas : reservas[i].estado = "cancelada"
\* ========================================================= IngresoGasto
\* IngresoGasto.save refuses a monto that is not positive
MontoPositivo(monto) == ~(monto <= 0)

\* IngresoGasto.save stores the monto of a gasto as a negative number
MontoAlmacenado(tipo, monto) == IF tipo = "gasto" /\ monto > 0 THEN -monto ELSE monto

\* the row IngresoGasto.objects.create stores (the monto is positive)
IngresoGasto(fecha, tipo, categoria, monto, pago, estado) ==
    [fecha |-> fecha, tipo |-> tipo, categoria |-> categoria,
     descripcion |-> <<>>, monto |-> MontoAlmacenado(tipo, monto),
     pago |-> pago, estado |-> estado]

\* ========================================================= Mantenimiento
MaxMants == 2
Costo == 3
ESTADO_CHOICES == {"programado", "en_proceso", "finalizado", "cancelado"}

\* Incidencia.save: keeps fecha_cierre in step with the estado
IncidenciaSave(x) ==
    LET x1 == IF x.estado \in {"resuelta", "cancelada"} /\ x.fecha_cierre = None
              THEN [x EXCEPT !.fecha_cierre = hoy] ELSE x
    IN  IF x1.estado \notin {"resuelta", "cancelada"} /\ x1.fecha_cierre # None
        THEN [x1 EXCEPT !.fecha_cierre = None] ELSE x1

\* Mantenimiento.save: stamps the start and end dates; the row it stores
MantenimientoSave(m) ==
    LET m1 == IF m.estado = "en_proceso" /\ m.fecha_inicio = None
              THEN [m EXCEPT !.fecha_inicio = hoy] ELSE m
    IN  IF m1.estado = "finalizado" /\ m1.fecha_finalizacion = None
        THEN [m1 EXCEPT !.fecha_finalizacion = hoy] ELSE m1

\* Mantenimiento.save of a finished maintenance that has an incident: the
\* incident is set to resuelta and saved; the incidents after the save of m
MantenimientoSaveIncidencias(m) ==
    IF m.incidencia # None /\ m.estado = "finalizado"
    THEN [incidencias EXCEPT ![m.incidencia] =
             IncidenciaSave([@ EXCEPT !.estado = "resuelta"])]
    ELSE incidencias

\* Mantenimiento.objects.create: the row stored, with the field defaults
Mantenimiento_objects_create(area_, vivienda, incidencia, tipo, estado, fecha_programada) ==
    MantenimientoSave([area |-> area_, vivienda |-> vivienda, incidencia |-> incidencia,
                       tipo |-> tipo, estado |-> estado,
                       fecha_solicitud |-> hoy, fecha_programada |-> fecha_programada,
                       fecha_inicio |-> None, fecha_finalizacion |-> None,
                       costo_final |-> None, observaciones |-> <<>>])

\* a maintenance created through the API, in the default estado
CrearMantenimiento(costo_final) ==
    /\ Len(mants) < MaxMants
    /\ LET m == [estado |-> "programado", fecha_inicio |-> None,
                 fecha_finalizacion |-> None, costo_final |-> costo_final,
                 observaciones |-> <<>>, area |-> "None", vivienda |-> "None",
                 incidencia |-> None, tipo |-> "correctivo",
                 fecha_solicitud |-> hoy, fecha_programada |-> hoy]
       IN  /\ mants' = Append(mants, MantenimientoSave(m))
           /\ incidencias' = MantenimientoSaveIncidencias(m)
    /\ ret' = Ret("crear_mantenimiento", <<Len(mants) + 1>>, "True")
    /\ UNCHANGED <<hoy, area, reservas, ledger, pagos, objs, fondo, cuota, prog, cuotas, config>>

iniciar(i) ==
    /\ i \in DOMAIN mants
    /\ IF mants[i].estado # "programado"
       THEN /\ ret' = Ret("iniciar", <<i>>, "False")
            /\ UNCHANGED <<mants, incidencias>>
       ELSE LET m == [mants[i] EXCEPT !.estado = "en_proceso", !.fecha_inicio = hoy]
            IN  /\ mants' = [mants EXCEPT ![i] = MantenimientoSave(m)]
                /\ incidencias' = MantenimientoSaveIncidencias(m)
                /\ ret' = Ret("iniciar", <<i>>, "True")
    /\ UNCHANGED <<hoy, area, reservas, ledger, pagos, objs, fondo, cuota, prog, cuotas, config>>

\* a bug that lets a cancelled maintenance be finished
finalizable_mut(m) == m.estado \in {"programado", "en_proceso", "cancelado"}

\* the guard of Mantenimiento.finalizar
finalizable(m) == m.estado \in {"programado", "en_proceso"}

finalizar(i, costo_final, observaciones) ==
    /\ i \in DOMAIN mants
    /\ IF ~finalizable(mants[i])
       THEN /\ ret' = Ret("finalizar", <<i>>, "False")
            /\ UNCHANGED <<mants, ledger, incidencias>>
       ELSE LET m0 == [mants[i] EXCEPT
                        !.estado = "finalizado",
                        !.fecha_finalizacion = hoy,
                        !.costo_final = IF costo_final # None THEN costo_final ELSE @,
                        !.observaciones = Nota(@, "FINALIZACIÓN", observaciones)]
                m == MantenimientoSave(m0)
            IN  /\ mants' = [mants EXCEPT ![i] = m]
                /\ incidencias' = MantenimientoSaveIncidencias(m0)
                /\ ledger' = IF m.costo_final # None /\ m.costo_final # 0 /\ m.costo_final > 0
                             THEN Append(ledger, IngresoGasto(m.fecha_finalizacion, "gasto",
                                      "mantenimiento", m.costo_final, None, "registrado"))
                             ELSE ledger
                /\ ret' = Ret("finalizar", <<i>>, "True")
    /\ UNCHANGED <<hoy, area, reservas, pagos, objs, fondo, cuota, prog, cuotas, config>>

Mantenimiento_cancelar(i, motivo) ==
    /\ i \in DOMAIN mants
    /\ IF mants[i].estado \in {"finalizado", "cancelado"}
       THEN /\ ret' = Ret("cancelar", <<i>>, "False")
            /\ UNCHANGED <<mants, incidencias>>
       ELSE LET m == [mants[i] EXCEPT !.estado = "cancelado",
                         !.observaciones = Nota(@, "CANCELACIÓN", motivo)]
            IN  /\ mants' = [mants EXCEPT ![i] = MantenimientoSave(m)]
                /\ incidencias' = MantenimientoSaveIncidencias(m)
                /\ ret' = Ret("cancelar", <<i>>, "True")
    /\ UNCHANGED <<hoy, area, reservas, ledger, pagos, objs, fondo, cuota, prog, cuotas, config>>

\* POST .../iniciar/; the response serializer names fields Mantenimiento does
\* not have
MantenimientoViewSet_iniciar(i, exc) ==
    /\ i \in DOMAIN mants
    /\ IF exc # "None"
       THEN /\ ret' = Ret("http_iniciar", <<i>>, exc)
            /\ UNCHANGED <<mants, incidencias>>
       ELSE IF mants[i].estado # "programado"
       THEN /\ ret' = Ret("http_iniciar", <<i>>, "400")
            /\ UNCHANGED <<mants, incidencias>>
       ELSE LET m == [mants[i] EXCEPT !.estado = "en_proceso", !.fecha_inicio = hoy]
            IN  /\ mants' = [mants EXCEPT ![i] = MantenimientoSave(m)]
                /\ incidencias' = MantenimientoSaveIncidencias(m)
                /\ ret' = Ret("http_iniciar", <<i>>, "ImproperlyConfigured")
    /\ UNCHANGED <<hoy, area, reservas, ledger, pagos, objs, fondo, cuota, prog, cuotas, config>>

\* POST .../finalizar/: writes estado 'completado' and the attribute fecha_fin,
\* which is no column of the table; the response serializer names fields
\* Mantenimiento does not have
MantenimientoViewSet_finalizar(i, observaciones, exc) ==
    /\ i \in DOMAIN mants
    /\ IF exc # "None"
       THEN /\ ret' = Ret("http_finalizar", <<i>>, exc)
            /\ UNCHANGED <<mants, incidencias>>
       ELSE IF mants[i].estado # "en_proceso"
       THEN /\ ret' = Ret("http_finalizar", <<i>>, "400")
            /\ UNCHANGED <<mants, incidencias>>
       ELSE LET m == [mants[i] EXCEPT !.estado = "completado",
                         !.observaciones = Nota(@, "FINALIZACIÓN", observaciones)]
            IN  /\ mants' = [mants EXCEPT ![i] = MantenimientoSave(m)]
                /\ incidencias' = MantenimientoSaveIncidencias(m)
                /\ ret' = Ret("http_finalizar", <<i>>, "ImproperlyConfigured")
    /\ UNCHANGED <<hoy, area, reservas, ledger, pagos, objs, fondo, cuota, prog, cuotas, config>>

InitMantenimiento ==
    /\ hoy \in Fechas
    /\ AreaIdle /\ FondoIdle /\ CuotaIdle
    /\ reservas = <<>> /\ mants = <<>> /\ ledger = <<>> /\ pagos = <<>> /\ objs = <<>>
    /\ OtrosIdle
    /\ ret = Ret("init", <<>>, "None")

NextMantenimiento ==
    \/ \E c \in {None, Costo} : CrearMantenimiento(c)
    \/ \E i \in 1..MaxMants : iniciar(i)
    \/ \E i \in 1..MaxMants, c \in {None, 0, Costo}, o \in Observaciones : finalizar(i, c, o)
    \/ \E i \in 1..MaxMants, o \in Observaciones : Mantenimiento_cancelar(i, o)
    \/ \E i \in 1..MaxMants, x \in get_object : MantenimientoViewSet_iniciar(i, x)
    \/ \E i \in 1..MaxMants, o \in Observaciones, x \in get_object :
          MantenimientoViewSet_finalizar(i, o, x)

SpecMantenimiento == InitMantenimiento /\ [][NextMantenimiento]_vars

\* the maintenances as the model methods alone drive them
NextMetodosMantenimiento ==
    \/ \E c \in {None, Costo} : CrearMantenimiento(c)
    \/ \E i \in 1..MaxMants : iniciar(i)
    \/ \E i \in 1..MaxMants, c \in {None, 0, Costo}, o \in Observaciones : finalizar(i, c, o)
    \/ \E i \in 1..MaxMants, o \in Observaciones : Mantenimiento_cancelar(i, o)

SpecMetodosMantenimiento == InitMantenimiento /\ [][NextMetodosMantenimiento]_vars

\* ------------------------------------------------- claims, Mantenimiento
TransicionesMantenimiento ==
    {<<"programado", "en_proceso">>, <<"programado", "finalizado">>,
     <<"en_proceso", "finalizado">>, <<"programado", "cancelado">>,
     <<"en_proceso", "cancelado">>}
MetodosMantenimiento == {"iniciar", "finalizar", "cancelar"}

FinalesMantenimiento == {"finalizado", "cancelado"}

\* C4: under iniciar, finalizar and cancelar the estado of a maintenance
\* changes only along the five declared transitions; a call that returns False
\* changes no maintenance and adds no ledger entry; a call on a maintenance
\* whose precondition fails returns False; and a maintenance in finalizado or
\* cancelado never changes again.
C4_TransicionesMantenimiento ==
    [][ret'.op \in MetodosMantenimiento =>
        /\ \A i \in DOMAIN mants :
              /\ mants'[i].estado # mants[i].estado
                    => <<mants[i].estado, mants'[i].estado>> \in TransicionesMantenimiento
              /\ mants[i].estado \in FinalesMantenimiento
                    => /\ mants'[i] = mants[i]
                       /\ ret'.args = <<i>> => ret'.val = "False"
              /\ (ret'.op = "iniciar" /\ ret'.args = <<i>> /\ mants[i].estado # "programado")
                    => ret'.val = "False"
        /\ ret'.val = "False" => (mants' = mants /\ ledger' = ledger)
      ]_vars

\* a finished maintenance with its ledger entry, on which a later call was refused
C4_Witness ==
    /\ ret.op \in MetodosMantenimiento /\ ret.val = "False"
    /\ mants[ret.args[1]].estado = "finalizado"
    /\ Len(ledger) > 0

\* C5: the estado of every maintenance is one of the four declared states, and
\* the HTTP finalizar action on a maintenance in en_proceso leaves it in
\* finalizado.
C5_EstadoDeclarado ==
    /\ [](\A i \in DOMAIN mants : mants[i].estado \in ESTADO_CHOICES)
    /\ [][\A i \in DOMAIN mants :
            (ret'.op = "http_finalizar" /\ ret'.args = <<i>>
                /\ mants[i].estado = "en_proceso")
               => mants'[i].estado = "finalizado"]_vars
\* ==================================================== PagoAdministracion
MaxPagos == 1
MaxObjs == 2
MaxLedger == 3
MaxMonto == 2
MaxNotas == 1
Montos == 1..MaxMonto
ESTADO_CHOICES_Pago == {"registrado", "confirmado", "rechazado"}

\* _initial_values of an instance: "absent" while the attribute does not exist,
\* "empty" for {}, else the estado it holds
ValoresIniciales == {"absent", "empty"} \cup ESTADO_CHOICES_Pago

\* the condition of PagoAdministracion.save under which the income is booked
debe_registrar(estado, iv) ==
    estado = "confirmado" /\ (iv = "absent" \/ iv # "confirmado")

\* the condition of PagoAdministracion.save under which the income is annulled
debe_anular(estado, iv) ==
    iv # "absent" /\ iv = "confirmado" /\ estado = "rechazado"

\* CuotaAdministracion.__str__ calls the static method get_nombre_mes(mes)
\* without its argument: formatting a fee raises TypeError
CuotaAdministracion_str == "TypeError"

\* PagoAdministracion._registrar_ingreso: the descripcion formats the fee of
\* the payment before IngresoGasto.objects.create is called
registrar_ingreso(l, pk) ==
    IF CuotaAdministracion_str = "TypeError"
    THEN [exc |-> "TypeError", ledger |-> l]
    ELSE [exc |-> "None", ledger |->
            Append(l, IngresoGasto(pagos[pk].fecha_pago, "ingreso",
                       "cuota_administracion", pagos[pk].monto_pagado, pk, "registrado"))]

\* PagoAdministracion._anular_ingreso
anular_ingreso(l, pk) ==
    [k \in DOMAIN l |->
        IF l[k].pago = pk /\ l[k].tipo = "ingreso"
        THEN [l[k] EXCEPT !.estado = "anulado"] ELSE l[k]]

\* PagoAdministracion.save of an instance of payment pk with _initial_values
\* iv and estado e: the exception that leaves it, if any, and the ledger
PagoSave(pk, iv, e) ==
    LET r == IF debe_registrar(e, iv) THEN registrar_ingreso(ledger, pk)
             ELSE [exc |-> "None", ledger |-> ledger]
    IN  IF r.exc # "None" THEN r
        ELSE IF debe_anular(e, iv)
             THEN [exc |-> "None", ledger |-> anular_ingreso(r.ledger, pk)]
        ELSE r

\* a payment created through the API: a new instance in the default estado
CrearPago(monto, fecha) ==
    /\ Len(pagos) < MaxPagos /\ Len(objs) < MaxObjs
    /\ pagos' = Append(pagos, [estado |-> "registrado", monto_pagado |-> monto,
                               fecha_pago |-> fecha, observaciones |-> <<>>])
    /\ objs' = Append(objs, [pk |-> Len(pagos) + 1, iv |-> "empty",
                             observaciones |-> <<>>])
    /\ ret' = Ret("crear_pago", <<Len(pagos) + 1>>, "registrado")
    /\ UNCHANGED <<hoy, area, reservas, mants, ledger, fondo, cuota, prog, incidencias, cuotas, config>>

\* PagoAdministracion.objects.get(pk): a fresh instance, without _initial_values
Cargar(pk) ==
    /\ pk \in DOMAIN pagos /\ Len(objs) < MaxObjs
    /\ objs' = Append(objs, [pk |-> pk, iv |-> "absent",
                             observaciones |-> pagos[pk].observaciones])
    /\ ret' = Ret("get", <<pk>>, pagos[pk].estado)
    /\ UNCHANGED <<hoy, area, reservas, mants, ledger, pagos, fondo, cuota, prog, incidencias, cuotas, config>>

\* the instance goes out of scope
Soltar(o) ==
    /\ o \in DOMAIN objs
    /\ objs' = SubSeq(objs, 1, o - 1) \o SubSeq(objs, o + 1, Len(objs))
    /\ ret' = Ret("del", <<>>, "None")
    /\ UNCHANGED <<hoy, area, reservas, mants, ledger, pagos, fondo, cuota, prog, incidencias, cuotas, config>>

\* instance.estado = e; instance.save(): an exception leaves the row, the
\* ledger and _initial_values as they were; the save writes every field of
\* the instance, the observaciones it was loaded with included
Guardar(o, e) ==
    /\ o \in DOMAIN objs
    /\ Len(ledger) < MaxLedger
    /\ LET r == PagoSave(objs[o].pk, objs[o].iv, e)
       IN  IF r.exc # "None"
           THEN /\ ret' = Ret("save", <<objs[o].pk, e>>, r.exc)
                /\ UNCHANGED <<ledger, objs, pagos>>
           ELSE /\ ledger' = r.ledger
                /\ objs' = [objs EXCEPT ![o].iv = pagos[objs[o].pk].estado]
                /\ pagos' = [pagos EXCEPT ![objs[o].pk].estado = e,
                        ![objs[o].pk].observaciones = objs[o].observaciones]
                /\ ret' = Ret("save", <<objs[o].pk, e>>, "None")
    /\ UNCHANGED <<hoy, area, reservas, mants, fondo, cuota, prog, incidencias, cuotas, config>>

\* POST .../confirmar/: get_object, then save as confirmado
PagoAdministracionViewSet_confirmar(pk) ==
    /\ pk \in DOMAIN pagos
    /\ Len(ledger) < MaxLedger
    /\ IF pagos[pk].estado # "registrado"
       THEN /\ ret' = Ret("http_confirmar", <<pk, "confirmado">>, "400")
            /\ UNCHANGED <<pagos, ledger>>
       ELSE LET r == PagoSave(pk, "absent", "confirmado")
            IN  IF r.exc # "None"
                THEN /\ ret' = Ret("http_confirmar", <<pk, "confirmado">>, r.exc)
                     /\ UNCHANGED <<pagos, ledger>>
                ELSE /\ ledger' = r.ledger
                     /\ pagos' = [pagos EXCEPT ![pk].estado = "confirmado"]
                     /\ ret' = Ret("http_confirmar", <<pk, "confirmado">>, "AttributeError")
    /\ UNCHANGED <<hoy, area, reservas, mants, objs, fondo, cuota, prog, incidencias, cuotas, config>>

\* POST .../rechazar/: get_object, the note of the motivo, then save as
\* rechazado; the response serializer reads vivienda.identificador, which
\* Vivienda does not have
PagoAdministracionViewSet_rechazar(pk, motivo) ==
    /\ pk \in DOMAIN pagos
    /\ Len(ledger) < MaxLedger
    /\ motivo # "None" => Len(pagos[pk].observaciones) < MaxNotas
    /\ IF pagos[pk].estado # "registrado"
       THEN /\ ret' = Ret("http_rechazar", <<pk, "rechazado">>, "400")
            /\ UNCHANGED <<pagos, ledger>>
       ELSE LET r == PagoSave(pk, "absent", "rechazado")
            IN  IF r.exc # "None"
                THEN /\ ret' = Ret("http_rechazar", <<pk, "rechazado">>, r.exc)
                     /\ UNCHANGED <<pagos, ledger>>
                ELSE /\ ledger' = r.ledger
                     /\ pagos' = [pagos EXCEPT ![pk].estado = "rechazado",
                             ![pk].observaciones = Nota(@, "RECHAZADO", motivo)]
                     /\ ret' = Ret("http_rechazar", <<pk, "rechazado">>, "AttributeError")
    /\ UNCHANGED <<hoy, area, reservas, mants, objs, fondo, cuota, prog, incidencias, cuotas, config>>

InitPago ==
    /\ hoy \in Fechas
    /\ AreaIdle /\ FondoIdle /\ CuotaIdle
    /\ reservas = <<>> /\ mants = <<>> /\ ledger = <<>> /\ pagos = <<>> /\ objs = <<>>
    /\ OtrosIdle
    /\ ret = Ret("init", <<>>, "None")

\* POST /finanzas/ with the writable field pago set: IngresoGasto.save
\* of an income row linked to payment pk
CrearIngresoDePago(pk, monto) ==
    /\ pk \in DOMAIN pagos
    /\ Len(ledger) < MaxLedger
    /\ IF ~MontoPositivo(monto)
       THEN /\ ret' = Ret("crear_ingreso", <<pk>>, "ValueError")
            /\ UNCHANGED ledger
       ELSE /\ ledger' = Append(ledger, IngresoGasto(hoy, "ingreso",
                              "cuota_administracion", monto, pk, "registrado"))
            /\ ret' = Ret("crear_ingreso", <<pk>>, "201")
    /\ UNCHANGED <<hoy, area, reservas, mants, pagos, objs, fondo, cuota, prog, incidencias, cuotas, config>>

NextPago ==
    \/ \E m \in Montos, f \in Fechas : CrearPago(m, f)
    \/ \E pk \in 1..MaxPagos, m \in 0..MaxMonto : CrearIngresoDePago(pk, m)
    \/ \E pk \in 1..MaxPagos : Cargar(pk)
    \/ \E o \in 1..MaxObjs : Soltar(o)
    \/ \E o \in 1..MaxObjs, e \in ESTADO_CHOICES_Pago : Guardar(o, e)
    \/ \E pk \in 1..MaxPagos : PagoAdministracionViewSet_confirmar(pk)
    \/ \E pk \in 1..MaxPagos, o \in Observaciones :
          PagoAdministracionViewSet_rechazar(pk, o)

SpecPago == InitPago /\ [][NextPago]_vars

\* ---------------------------------------------- claims, PagoAdministracion
IngresoDePago(t, pk) ==
    /\ t.tipo = "ingreso" /\ t.categoria = "cuota_administracion"
    /\ t.estado = "registrado" /\ t.pago = pk
    /\ t.monto = pagos[pk].monto_pagado /\ t.fecha = pagos[pk].fecha_pago

\* C7: a save with estado confirmado of a stored payment whose estado is not
\* confirmado stores confirmado and adds exactly one ledger entry, the income
\* of that payment; a save with estado registrado or rechazado adds none.
C7_IngresoAlConfirmar ==
    [][\A pk \in DOMAIN pagos :
        /\ (/\ ret'.op \in {"save", "http_confirmar"}
            /\ ret'.args = <<pk, "confirmado">> /\ ret'.val # "400"
            /\ pagos[pk].estado # "confirmado")
              => /\ pagos'[pk].estado = "confirmado"
                 /\ Len(ledger') = Len(ledger) + 1
                 /\ IngresoDePago(ledger'[Len(ledger')], pk)
        /\ (ret'.op = "save" /\ ret'.args \in {<<pk, "registrado">>, <<pk, "rechazado">>})
              => Len(ledger') = Len(ledger)
      ]_vars

\* C8: a payment in estado rechazado has no linked income entry that is not
\* annulled.
C8_RechazadoSinIngresoVigente ==
    \A pk \in DOMAIN pagos :
        pagos[pk].estado = "rechazado"
           => \A k \in DOMAIN ledger :
                 (ledger[k].pago = pk /\ ledger[k].tipo = "ingreso")
                    => ledger[k].estado = "anulado"
\* ================================================== IngresoGasto.anular
Tipos == {"ingreso", "gasto"}

\* a transaction created through the API or by a model method
CrearTransaccion(tipo, monto) ==
    /\ Len(ledger) < MaxLedger
    /\ IF ~MontoPositivo(monto)
       THEN /\ ret' = Ret("crear_transaccion", <<>>, "ValueError")
            /\ UNCHANGED ledger
       ELSE /\ ledger' = Append(ledger, IngresoGasto(hoy, tipo,
                 IF tipo = "ingreso" THEN "otro_ingreso" ELSE "otro_gasto",
                 monto, None, "registrado"))
            /\ ret' = Ret("crear_transaccion", <<Len(ledger) + 1>>, "True")
    /\ UNCHANGED <<hoy, area, reservas, mants, pagos, objs, fondo, cuota, prog, incidencias, cuotas, config>>

\* IngresoGasto.anular on the stored transaction k: its save sees the monto
\* as it was stored
anular(k, motivo) ==
    /\ k \in DOMAIN ledger
    /\ IF ledger[k].estado = "anulado"
       THEN /\ ret' = Ret("anular", <<k>>, "False")
            /\ UNCHANGED ledger
       ELSE IF ~MontoPositivo(ledger[k].monto)
       THEN /\ ret' = Ret("anular", <<k>>, "ValueError")
            /\ UNCHANGED ledger
       ELSE /\ ledger' = [ledger EXCEPT ![k] = [@ EXCEPT
                 !.estado = "anulado",
                 !.descripcion = Nota(@, "ANULADO", motivo),
                 !.monto = MontoAlmacenado(ledger[k].tipo, @)]]
            /\ ret' = Ret("anular", <<k>>, "True")
    /\ UNCHANGED <<hoy, area, reservas, mants, pagos, objs, fondo, cuota, prog, incidencias, cuotas, config>>

InitLedger ==
    /\ hoy \in Fechas
    /\ AreaIdle /\ FondoIdle /\ CuotaIdle
    /\ reservas = <<>> /\ mants = <<>> /\ ledger = <<>> /\ pagos = <<>> /\ objs = <<>>
    /\ OtrosIdle
    /\ ret = Ret("init", <<>>, "None")

NextLedger ==
    \/ \E t \in Tipos, m \in 0..MaxMonto : CrearTransaccion(t, m)
    \/ \E k \in 1..MaxLedger, o \in Observaciones : anular(k, o)

SpecLedger == InitLedger /\ [][NextLedger]_vars

\* -------------------------------------------------- claims, IngresoGasto
\* C10: anular on a stored transaction that is not annulled stores estado
\* anulado and returns True; on an annulled transaction it returns False and
\* changes nothing.
C10_AnularTransaccion ==
    [][\A k \in DOMAIN ledger :
        (ret'.op = "anular" /\ ret'.args = <<k>>) =>
            IF ledger[k].estado # "anulado"
            THEN ret'.val = "True" /\ ledger'[k].estado = "anulado"
            ELSE ret'.val = "False" /\ ledger' = ledger
      ]_vars
\* ========================================================= FondoReserva
MaxMovs == 3
\* the largest amount a DecimalField(max_digits=12, decimal_places=2) stores
\* (9999999999.99 in the code), on the scale of the amounts of the model
MaxDecimal == 4

\* MovimientoFondo.TIPO_CHOICES
TIPO_CHOICES == {"ingreso", "gasto"}

RECURSIVE SumaMovimientos(_, _)
\* the sum of the monto of the movements of one tipo
SumaMovimientos(movs, tipo) ==
    IF movs = <<>> THEN 0
    ELSE (IF Head(movs).tipo = tipo THEN Head(movs).monto ELSE 0)
         + SumaMovimientos(Tail(movs), tipo)

\* the second guard of FondoReserva.registrar_uso
fondos_insuficientes(monto) == monto > fondo.monto_actual

\* FondoReserva.save(): writing monto_actual raises when the amount does not
\* fit the column (decimal.InvalidOperation while the value is formatted,
\* DataError where the database checks the width)
FondoSave(monto_actual) ==
    IF monto_actual > MaxDecimal THEN "InvalidOperation" ELSE "None"

\* FondoReserva.registrar_aporte(monto, descripcion=None): the object's
\* monto_actual changes first, then the fund is saved, then the movement is
\* created; the three are not in one transaction. A missing descripcion is
\* replaced by a default text.
registrar_aporte(monto) ==
    /\ Len(fondo.movimientos) < MaxMovs
    /\ fondo.monto_actual <= MaxDecimal
    /\ IF monto <= 0
       THEN /\ ret' = Ret("registrar_aporte", <<monto>>, "ValueError")
            /\ UNCHANGED fondo
       ELSE IF FondoSave(fondo.monto_actual + monto) # "None"
       THEN /\ fondo' = [fondo EXCEPT !.monto_actual = @ + monto]
            /\ ret' = Ret("registrar_aporte", <<monto>>,
                          FondoSave(fondo.monto_actual + monto))
       ELSE /\ fondo' = [fondo EXCEPT
                 !.monto_actual = @ + monto,
                 !.guardado = fondo.monto_actual + monto,
                 !.movimientos = Append(@, [tipo |-> "ingreso", monto |-> monto])]
            /\ ret' = Ret("registrar_aporte", <<monto>>, "MovimientoFondo")
    /\ UNCHANGED <<hoy, area, reservas, mants, ledger, pagos, objs, cuota, prog, incidencias, cuotas, config>>

\* FondoReserva.registrar_uso(monto, descripcion): as registrar_aporte, with
\* the descripcion handed on as given; MovimientoFondo.descripcion is NOT
\* NULL, so creating the movement of a None descripcion raises after the fund
\* was saved
registrar_uso(monto, descripcion) ==
    /\ Len(fondo.movimientos) < MaxMovs
    /\ IF monto <= 0
       THEN /\ ret' = Ret("registrar_uso", <<monto, descripcion>>, "ValueError")
            /\ UNCHANGED fondo
       ELSE IF fondos_insuficientes(monto)
       THEN /\ ret' = Ret("registrar_uso", <<monto, descripcion>>, "ValueError")
            /\ UNCHANGED fondo
       ELSE IF FondoSave(fondo.monto_actual - monto) # "None"
       THEN /\ fondo' = [fondo EXCEPT !.monto_actual = @ - monto]
            /\ ret' = Ret("registrar_uso", <<monto, descripcion>>,
                          FondoSave(fondo.monto_actual - monto))
       ELSE IF descripcion = "None"
       THEN /\ fondo' = [fondo EXCEPT
                 !.monto_actual = @ - monto,
                 !.guardado = fondo.monto_actual - monto]
            /\ ret' = Ret("registrar_uso", <<monto, descripcion>>, "IntegrityError")
       ELSE /\ fondo' = [fondo EXCEPT
                 !.monto_actual = @ - monto,
                 !.guardado = fondo.monto_actual - monto,
                 !.movimientos = Append(@, [tipo |-> "gasto", monto |-> monto])]
            /\ ret' = Ret("registrar_uso", <<monto, descripcion>>, "MovimientoFondo")
    /\ UNCHANGED <<hoy, area, reservas, mants, ledger, pagos, objs, cuota, prog, incidencias, cuotas, config>>

\* POST fondos/<pk>/registrar_movimiento/ of FondoReservaViewSet, whose
\* filterset_fields name 'tipo', which FondoReserva does not have (exc is the
\* outcome of get_object). A valid movement is stored for the fund, whatever
\* the sign of its monto; then fondo.actualizar_saldo(), which FondoReserva
\* does not define, raises AttributeError: neither the stored monto_actual
\* nor the one of a fund object in memory changes. An undeclared tipo is
\* answered 400.
FondoReservaViewSet_registrar_movimiento(tipo, monto, exc) ==
    /\ Len(fondo.movimientos) < MaxMovs
    /\ IF exc # "None"
       THEN /\ ret' = Ret("http_registrar_movimiento", <<tipo, monto>>, exc)
            /\ UNCHANGED fondo
       ELSE IF tipo \notin TIPO_CHOICES
       THEN /\ ret' = Ret("http_registrar_movimiento", <<tipo, monto>>, "400")
            /\ UNCHANGED fondo
       ELSE /\ fondo' = [fondo EXCEPT
                 !.movimientos = Append(@, [tipo |-> tipo, monto |-> monto])]
            /\ ret' = Ret("http_registrar_movimiento", <<tipo, monto>>, "AttributeError")
    /\ UNCHANGED <<hoy, area, reservas, mants, ledger, pagos, objs, cuota, prog, incidencias, cuotas, config>>

\* one fund object, as loaded from its row, and the movements of the fund
InitFondo ==
    /\ hoy \in Fechas
    /\ AreaIdle /\ CuotaIdle
    /\ \E m \in 0..MaxMonto :
          fondo = [monto_actual |-> m, guardado |-> m, movimientos |-> <<>>]
    /\ reservas = <<>> /\ mants = <<>> /\ ledger = <<>> /\ pagos = <<>> /\ objs = <<>>
    /\ OtrosIdle
    /\ ret = Ret("init", <<>>, "None")

NextFondo ==
    \/ \E m \in -1..MaxMonto : registrar_aporte(m)
    \/ \E m \in -1..(MaxMonto + 1), d \in {"None", "texto"} : registrar_uso(m, d)
    \/ \E t \in TIPO_CHOICES \cup {"otro"}, m \in -1..MaxMonto, exc \in get_object :
          FondoReservaViewSet_registrar_movimiento(t, m, exc)

SpecFondo == InitFondo /\ [][NextFondo]_vars

\* -------------------------------------------------- claims, FondoReserva
\* recorded ingreso movements minus recorded gasto movements
SaldoMovimientos(movs) ==
    SumaMovimientos(movs, "ingreso") - SumaMovimientos(movs, "gasto")

\* C9: registrar_uso raises and changes nothing when monto <= 0 or monto >
\* monto_actual, registrar_aporte does so when monto <= 0; monto_actual is
\* never negative, and every call of the two methods keeps it equal to the
\* amount it started from plus the recorded ingreso movements minus the
\* recorded gasto movements: a call changes monto_actual by exactly what it
\* adds to the movements.
C9_SaldoFondo ==
    /\ [](fondo.monto_actual >= 0)
    /\ [][ret'.op \in {"registrar_aporte", "registrar_uso"} =>
          /\ (ret'.op = "registrar_uso"
                /\ (ret'.args[1] <= 0 \/ ret'.args[1] > fondo.monto_actual))
             => (ret'.val = "ValueError" /\ fondo' = fondo)
          /\ (ret'.op = "registrar_aporte" /\ ret'.args[1] <= 0)
             => (ret'.val = "ValueError" /\ fondo' = fondo)
          /\ fondo'.monto_actual - SaldoMovimientos(fondo'.movimientos)
                = fondo.monto_actual - SaldoMovimientos(fondo.movimientos)
         ]_vars

\* =================================================== CuotaAdministracion
MaxValor == 2
MaxCoef == 2
MaxRecargo == 2
MaxDia == 2

\* a bug that charges the surcharge on the due date itself
esta_vencida_mut(c) == c.fecha_vencimiento <= hoy

\* CuotaAdministracion.esta_vencida
esta_vencida(c) == c.fecha_vencimiento < hoy

\* valor_base counts 10^-2, coeficiente_propiedad 10^-4: the product counts 10^-6
calcular_valor_vivienda(c) == c.valor_base * c.coeficiente_propiedad

\* recargo_mora counts 10^-2 percent, so recargo_mora / 100 counts 10^-4 and the
\* surcharge 10^-10; the sum is exact and counts 10^-10
calcular_valor_con_mora(c) ==
    LET valor_base == calcular_valor_vivienda(c)
    IN  IF esta_vencida(c)
        THEN LET recargo == valor_base * c.recargo_mora
             IN  valor_base * 10000 + recargo
        ELSE valor_base * 10000

CalcularValorVivienda ==
    /\ ret' = Ret("calcular_valor_vivienda", <<calcular_valor_vivienda(cuota)>>, "Decimal")
    /\ UNCHANGED <<hoy, area, reservas, mants, ledger, pagos, objs, fondo, cuota, prog, incidencias, cuotas, config>>

CalcularValorConMora ==
    /\ ret' = Ret("calcular_valor_con_mora", <<calcular_valor_con_mora(cuota)>>, "Decimal")
    /\ UNCHANGED <<hoy, area, reservas, mants, ledger, pagos, objs, fondo, cuota, prog, incidencias, cuotas, config>>

\* the calendar day changes
AvanzarDia ==
    /\ hoy < MaxDia
    /\ hoy' = hoy + 1
    /\ ret' = Ret("dia", <<>>, "None")
    /\ UNCHANGED <<area, reservas, mants, ledger, pagos, objs, fondo, cuota, prog, incidencias, cuotas, config>>

InitCuota ==
    /\ hoy = 0
    /\ AreaIdle /\ FondoIdle
    /\ cuota \in [valor_base : 0..MaxValor, fecha_vencimiento : 0..MaxDia,
                  recargo_mora : 0..MaxRecargo, coeficiente_propiedad : 0..MaxCoef]
    /\ reservas = <<>> /\ mants = <<>> /\ ledger = <<>> /\ pagos = <<>> /\ objs = <<>>
    /\ OtrosIdle
    /\ ret = Ret("init", <<>>, "None")

NextCuota == CalcularValorVivienda \/ CalcularValorConMora \/ AvanzarDia

SpecCuota == InitCuota /\ [][NextCuota]_vars

\* ------------------------------------------- claims, CuotaAdministracion
\* C6: calcular_valor_con_mora equals valor_base * coeficiente_propiedad when
\* fecha_vencimiento is today or later and valor_base * coeficiente_propiedad *
\* (1 + recargo_mora / 100) when it is before today; calcular_valor_vivienda
\* equals valor_base * coeficiente_propiedad (amounts compared in units of 10^-10).
C6_ValorConMora ==
    /\ ret.op = "calcular_valor_con_mora" =>
          ret.args[1] = IF cuota.fecha_vencimiento >= hoy
                        THEN cuota.valor_base * cuota.coeficiente_propiedad * 10000
                        ELSE cuota.valor_base * cuota.coeficiente_propiedad
                                * (10000 + cuota.recargo_mora)
    /\ ret.op = "calcular_valor_vivienda" =>
          ret.args[1] = cuota.valor_base * cuota.coeficiente_propiedad

\* an overdue fee with a surcharge, and the amount computed for it
C6_Witness ==
    /\ ret.op = "calcular_valor_con_mora"
    /\ cuota.fecha_vencimiento < hoy
    /\ cuota.recargo_mora > 0 /\ cuota.valor_base > 0 /\ cuota.coeficiente_propiedad > 0
    /\ ret.args[1] > cuota.valor_base * cuota.coeficiente_propiedad * 10000

\* ============================================================= calendar
\* a date is its day number counted from 1 November 2023, a Wednesday
Epoca == [year |-> 2023, month |-> 11, weekday |-> 2]
ValueError == -2

EsBisiesto(a) == (a % 4 = 0 /\ a % 100 # 0) \/ a % 400 = 0

\* calendar.monthrange(a, m)[1]
monthrange(a, m) ==
    IF m = 2 THEN (IF EsBisiesto(a) THEN 29 ELSE 28)
    ELSE IF m \in {4, 6, 9, 11} THEN 30 ELSE 31

RECURSIVE DiasHasta(_, _)
\* the days from the epoch to the first day of month m of year a
DiasHasta(a, m) ==
    IF a = Epoca.year /\ m = Epoca.month THEN 0
    ELSE LET pa == IF m = 1 THEN a - 1 ELSE a
             pm == IF m = 1 THEN 12 ELSE m - 1
         IN  DiasHasta(pa, pm) + monthrange(pa, pm)

\* datetime.date(a, m, d): ValueError when the month has no such day
date(a, m, d) ==
    IF d \in 1..monthrange(a, m) THEN DiasHasta(a, m) + d - 1 ELSE ValueError

RECURSIVE FechaDe(_, _, _)
\* the year, month and day of the date n days after the first of month m of year a
FechaDe(n, a, m) ==
    IF n < monthrange(a, m) THEN [year |-> a, month |-> m, day |-> n + 1]
    ELSE FechaDe(n - monthrange(a, m),
                 IF m = 12 THEN a + 1 ELSE a, IF m = 12 THEN 1 ELSE m + 1)

year(n) == FechaDe(n, Epoca.year, Epoca.month).year
month(n) == FechaDe(n, Epoca.year, Epoca.month).month
day(n) == FechaDe(n, Epoca.year, Epoca.month).day

\* date.weekday(): Monday is 0
weekday(n) == (n + Epoca.weekday) % 7

min(a, b) == IF a <= b THEN a ELSE b

\* ============================================= ProgramacionMantenimiento
MaxAvance == 2
UltimoDia == 151
Areas == {"a1", "a2"}
FRECUENCIA_CHOICES == {"diaria", "semanal", "quincenal", "mensual",
                       "trimestral", "semestral", "anual"}

\* the programs: the day fields a frequency does not read are left unset
ProgramacionMantenimiento ==
    {p \in [activa : BOOLEAN, frecuencia : FRECUENCIA_CHOICES, area : Areas,
            dia_semana : {None} \cup 0..7, dia_mes : {None, 0, 1, 15, 29, 30, 31},
            mes : {None, 1}, ultima_generacion : {None}] :
        /\ p.frecuencia \notin {"semanal", "quincenal"} => p.dia_semana = None
        /\ p.frecuencia \in {"diaria", "semanal", "quincenal"} => p.dia_mes = None
        /\ p.frecuencia \notin {"semestral", "anual"} => p.mes = None}

\* a bug that counts the weekdays from 0
dias_agregar_mut(p) == (p.dia_semana - weekday(hoy)) % 7

\* dias_agregar of the semanal and quincenal branches
dias_agregar(p) == (p.dia_semana - weekday(hoy) - 1) % 7

\* the mensual branch of _calcular_proxima_fecha
proxima_mensual(p) ==
    LET anio == IF month(hoy) = 12 THEN year(hoy) + 1 ELSE year(hoy)
        mes == IF month(hoy) = 12 THEN 1 ELSE month(hoy) + 1
        este_mes == date(year(hoy), month(hoy), p.dia_mes)
        mes_siguiente == date(anio, mes, p.dia_mes)
        except == IF p.dia_mes > 28
                  THEN date(anio, mes, min(p.dia_mes, monthrange(anio, mes)))
                  ELSE date(anio, mes, p.dia_mes)
    IN  IF este_mes = ValueError THEN except
        ELSE IF este_mes < hoy
             THEN (IF mes_siguiente = ValueError THEN except ELSE mes_siguiente)
        ELSE este_mes

\* ProgramacionMantenimiento._calcular_proxima_fecha
calcular_proxima_fecha(p) ==
    IF p.frecuencia = "diaria" THEN hoy
    ELSE IF p.frecuencia = "semanal"
         THEN (IF p.dia_semana = None \/ p.dia_semana = 0 THEN None
               ELSE hoy + dias_agregar(p))
    ELSE IF p.frecuencia = "quincenal"
         THEN (IF p.dia_semana = None \/ p.dia_semana = 0 THEN None
               ELSE LET proxima == hoy + dias_agregar(p)
                    IN  IF p.ultima_generacion # None
                           /\ proxima - p.ultima_generacion < 14
                        THEN proxima + 7 ELSE proxima)
    ELSE IF p.frecuencia = "mensual"
         THEN (IF p.dia_mes = None \/ p.dia_mes = 0 THEN None ELSE proxima_mensual(p))
    ELSE None

\* a bug that drops the check of the day of the last generation
ya_generado_mut(p) == FALSE

\* the second guard of generar_proximo_mantenimiento
ya_generado(p) == p.ultima_generacion # None /\ p.ultima_generacion = hoy

generar_proximo_mantenimiento ==
    /\ LET proxima_fecha == calcular_proxima_fecha(prog)
       IN  IF ~prog.activa \/ ya_generado(prog)
           THEN /\ ret' = Ret("generar_proximo_mantenimiento", <<>>, "None")
                /\ UNCHANGED <<mants, prog>>
           ELSE IF proxima_fecha # None /\ proxima_fecha >= hoy
           THEN /\ Len(mants) < MaxMants
                /\ mants' = Append(mants, Mantenimiento_objects_create(
                       prog.area, "None", None, "preventivo", "programado", proxima_fecha))
                /\ prog' = [prog EXCEPT !.ultima_generacion = hoy]
                /\ ret' = Ret("generar_proximo_mantenimiento", <<>>, "Mantenimiento")
           ELSE /\ ret' = Ret("generar_proximo_mantenimiento", <<>>, "None")
                /\ UNCHANGED <<mants, prog>>
    /\ UNCHANGED <<hoy, area, reservas, ledger, pagos, objs, fondo, cuota,
                   incidencias, cuotas, config>>

\* the days on which the runs of the scheduler start
DiasIniciales == {date(2023, 11, 29), date(2023, 12, 30), date(2024, 1, 30),
                  date(2024, 2, 27)}

\* the calendar day changes, at most MaxAvance times in a run
Medianoche ==
    /\ \E d \in DiasIniciales : d <= hoy /\ hoy < d + MaxAvance
    /\ hoy' = hoy + 1
    /\ ret' = Ret("dia", <<>>, "None")
    /\ UNCHANGED <<area, reservas, mants, ledger, pagos, objs, fondo, cuota,
                   prog, incidencias, cuotas, config>>

InitProgramacion ==
    /\ hoy \in DiasIniciales
    /\ \E p \in ProgramacionMantenimiento, u \in {None, hoy - 14, hoy - 1} :
          prog = [p EXCEPT !.ultima_generacion = u]
    /\ AreaIdle /\ FondoIdle /\ CuotaIdle /\ ConfigIdle
    /\ incidencias = <<>> /\ cuotas = {}
    /\ reservas = <<>> /\ mants = <<>> /\ ledger = <<>> /\ pagos = <<>> /\ objs = <<>>
    /\ ret = Ret("init", <<>>, "None")

NextProgramacion == generar_proximo_mantenimiento \/ Medianoche

SpecProgramacion == InitProgramacion /\ [][NextProgramacion]_vars

\* _calcular_proxima_fecha called on a program, on any day of the calendar
CalcularProximaFecha ==
    /\ ret.op = "init"
    /\ ret' = Ret("calcular_proxima_fecha", <<calcular_proxima_fecha(prog)>>, "date")
    /\ UNCHANGED <<hoy, area, reservas, mants, ledger, pagos, objs, fondo, cuota,
                   prog, incidencias, cuotas, config>>

InitProximaFecha ==
    /\ hoy \in 0..UltimoDia
    /\ \E p \in ProgramacionMantenimiento, u \in {None, hoy - 14, hoy - 7} :
          /\ u >= None
          /\ p.activa
          /\ prog = [p EXCEPT !.ultima_generacion = u]
    /\ AreaIdle /\ FondoIdle /\ CuotaIdle /\ ConfigIdle
    /\ incidencias = <<>> /\ cuotas = {}
    /\ reservas = <<>> /\ mants = <<>> /\ ledger = <<>> /\ pagos = <<>> /\ objs = <<>>
    /\ ret = Ret("init", <<>>, "None")

NextProximaFecha == CalcularProximaFecha

SpecProximaFecha == InitProximaFecha /\ [][NextProximaFecha]_vars

\* ------------------------------------- claims, ProgramacionMantenimiento
\* the day fields are set as the frequency requires
DiasConfigurados(p) ==
    /\ p.frecuencia \in {"semanal", "quincenal"} => p.dia_semana \in 1..7
    /\ p.frecuencia \in {"mensual", "trimestral", "semestral", "anual"}
          => p.dia_mes \in 1..31
    /\ p.frecuencia \in {"semestral", "anual"} => p.mes \in 1..12

\* C11: for an active program whose ultima_generacion is not today and whose
\* day fields are set as its frequency requires, generar_proximo_mantenimiento
\* creates one maintenance of tipo preventivo for the program's area with
\* fecha_programada >= today, for every frequency.
C11_GeneraParaCadaFrecuencia ==
    [][(/\ ret'.op = "generar_proximo_mantenimiento"
        /\ prog.activa /\ prog.ultima_generacion # hoy /\ DiasConfigurados(prog))
       => /\ Len(mants') = Len(mants) + 1
          /\ mants'[Len(mants')].tipo = "preventivo"
          /\ mants'[Len(mants')].area = prog.area
          /\ mants'[Len(mants')].fecha_programada >= hoy
          /\ ret'.val = "Mantenimiento"
      ]_vars

\* C12: generar_proximo_mantenimiento creates no maintenance and returns None
\* when the program is inactive or its ultima_generacion equals today; when it
\* creates a maintenance it stores ultima_generacion = today; no two
\* maintenances of the program are generated on the same calendar day.
C12_UnaGeneracionPorDia ==
    /\ [][ret'.op = "generar_proximo_mantenimiento" =>
            /\ (~prog.activa \/ prog.ultima_generacion = hoy)
                  => (ret'.val = "None" /\ mants' = mants /\ prog' = prog)
            /\ mants' # mants
                  => (Len(mants') = Len(mants) + 1 /\ prog'.ultima_generacion = hoy)
         ]_vars
    /\ [](\A i \in DOMAIN mants : \A j \in DOMAIN mants :
             i # j => mants[i].fecha_solicitud # mants[j].fecha_solicitud)

\* a second call on the day of a generation, refused, after a generation on
\* an earlier day
C12_Witness ==
    /\ ret.op = "generar_proximo_mantenimiento" /\ ret.val = "None"
    /\ prog.activa /\ prog.ultima_generacion = hoy
    /\ Len(mants) = 2
    /\ mants[1].fecha_solicitud < hoy /\ mants[2].fecha_solicitud = hoy

\* C17: for frequency semanal and dia_semana in 1..7 _calcular_proxima_fecha
\* returns the one date d with today <= d <= today + 6 whose weekday number
\* (Monday = 1) is dia_semana; it returns None when dia_semana is unset or 0.
C17_ProximaFechaSemanal ==
    (ret.op = "calcular_proxima_fecha" /\ prog.frecuencia = "semanal") =>
        /\ prog.dia_semana \in 1..7 =>
              /\ ret.args[1] \in hoy..(hoy + 6)
              /\ \A d \in hoy..(hoy + 6) :
                    weekday(d) + 1 = prog.dia_semana <=> d = ret.args[1]
        /\ prog.dia_semana \in {None, 0} => ret.args[1] = None

\* a Sunday asked for on a Monday: the date six days later
C17_Witness ==
    /\ ret.op = "calcular_proxima_fecha" /\ prog.frecuencia = "semanal"
    /\ prog.dia_semana = 7 /\ weekday(hoy) = 0
    /\ ret.args[1] = hoy + 6

\* ============================================================ Incidencia
MaxIncidencias == 1
MaxSeguimientos == 1
Viviendas == {"v1", "v2"}

\* Incidencia.ESTADO_CHOICES
INCIDENCIA_ESTADO_CHOICES == {"reportada", "en_proceso", "resuelta", "cancelada"}

\* an incident reported through the API, with the field defaults
CrearIncidencia(vivienda) ==
    /\ Len(incidencias) < MaxIncidencias
    /\ incidencias' = Append(incidencias,
          IncidenciaSave([vivienda |-> vivienda, estado |-> "reportada",
                          fecha_cierre |-> None, requiere_mantenimiento |-> FALSE,
                          seguimientos |-> <<>>]))
    /\ ret' = Ret("crear_incidencia", <<Len(incidencias) + 1>>, "True")
    /\ UNCHANGED <<hoy, area, reservas, mants, ledger, pagos, objs, fondo, cuota,
                   prog, cuotas, config>>

RECURSIVE SeguimientosCreados(_)
\* the number of SeguimientoIncidencia rows
SeguimientosCreados(incs) ==
    IF incs = <<>> THEN 0
    ELSE Len(Head(incs).seguimientos) + SeguimientosCreados(Tail(incs))

\* Incidencia.crear_seguimiento(empleado, comentario, nuevo_estado=None): a
\* nuevo_estado that is given and declared becomes the estado and the incident
\* is saved (Incidencia.save stamps or clears fecha_cierre); in every case a
\* SeguimientoIncidencia with estado_actual = the incident's estado is created
crear_seguimiento(i, nuevo_estado) ==
    /\ i \in DOMAIN incidencias
    /\ SeguimientosCreados(incidencias) < MaxSeguimientos
    /\ LET x == IF nuevo_estado # "None" /\ nuevo_estado \in INCIDENCIA_ESTADO_CHOICES
                THEN IncidenciaSave([incidencias[i] EXCEPT !.estado = nuevo_estado])
                ELSE incidencias[i]
       IN  incidencias' = [incidencias EXCEPT ![i] =
               [x EXCEPT !.seguimientos = Append(@, [estado_actual |-> x.estado])]]
    /\ ret' = Ret("crear_seguimiento", <<i, nuevo_estado>>, "SeguimientoIncidencia")
    /\ UNCHANGED <<hoy, area, reservas, mants, ledger, pagos, objs, fondo, cuota,
                   prog, cuotas, config>>

\* a bug that never finds the maintenance of the incident
tiene_mantenimiento_mut(i) == FALSE

\* hasattr(self, "mantenimiento"): the reverse side of Mantenimiento.incidencia
tiene_mantenimiento(i) == \E k \in DOMAIN mants : mants[k].incidencia = i

asignar_a_mantenimiento(i) ==
    /\ i \in DOMAIN incidencias
    /\ IF tiene_mantenimiento(i)
       THEN /\ ret' = Ret("asignar_a_mantenimiento", <<i>>, "None")
            /\ UNCHANGED <<mants, incidencias>>
       ELSE /\ Len(mants) < MaxMants
            /\ mants' = Append(mants, Mantenimiento_objects_create(
                   "None", incidencias[i].vivienda, i, "correctivo", "programado", hoy))
            /\ incidencias' = [incidencias EXCEPT ![i] =
                   IncidenciaSave([@ EXCEPT !.requiere_mantenimiento = TRUE])]
            /\ ret' = Ret("asignar_a_mantenimiento", <<i>>, "Mantenimiento")
    /\ UNCHANGED <<hoy, area, reservas, ledger, pagos, objs, fondo, cuota,
                   prog, cuotas, config>>

\* a maintenance created through the API for an incident that has none yet:
\* the one-to-one field admits no second one
CrearMantenimientoDeIncidencia(i, fecha_programada) ==
    /\ i \in DOMAIN incidencias
    /\ ~\E k \in DOMAIN mants : mants[k].incidencia = i
    /\ Len(mants) < MaxMants
    /\ mants' = Append(mants, Mantenimiento_objects_create(
           "None", incidencias[i].vivienda, i, "correctivo", "programado",
           fecha_programada))
    /\ ret' = Ret("crear_mantenimiento", <<Len(mants) + 1>>, "True")
    /\ UNCHANGED <<hoy, area, reservas, ledger, pagos, objs, fondo, cuota,
                   prog, incidencias, cuotas, config>>

InitIncidencia ==
    /\ hoy = date(2023, 11, 29)
    /\ AreaIdle /\ FondoIdle /\ CuotaIdle /\ ProgIdle /\ ConfigIdle
    /\ incidencias = <<>> /\ cuotas = {}
    /\ reservas = <<>> /\ mants = <<>> /\ ledger = <<>> /\ pagos = <<>> /\ objs = <<>>
    /\ ret = Ret("init", <<>>, "None")

NextIncidencia ==
    \/ \E v \in Viviendas : CrearIncidencia(v)
    \/ \E i \in 1..MaxIncidencias : asignar_a_mantenimiento(i)
    \/ \E i \in 1..MaxIncidencias : CrearMantenimientoDeIncidencia(i, hoy + 1)
    \/ \E k \in 1..MaxMants : iniciar(k)
    \/ \E k \in 1..MaxMants : finalizar(k, None, "None")
    \/ \E k \in 1..MaxMants : Mantenimiento_cancelar(k, "None")
    \/ \E i \in 1..MaxIncidencias,
          e \in INCIDENCIA_ESTADO_CHOICES \cup {"None", "otro"} : crear_seguimiento(i, e)

SpecIncidencia == InitIncidencia /\ [][NextIncidencia]_vars

\* ---------------------------------------------------- claims, Incidencia
MantenimientosDe(i) == {k \in DOMAIN mants : mants[k].incidencia = i}

\* C13: asignar_a_mantenimiento on an incident without a linked maintenance
\* creates one (estado programado, the incident's vivienda, linked to the
\* incident, fecha_programada = today) and sets requiere_mantenimiento; on an
\* incident with one it returns None and changes nothing; an incident never
\* has more than one maintenance.
C13_UnMantenimientoPorIncidencia ==
    /\ [][\A i \in DOMAIN incidencias :
            (ret'.op = "asignar_a_mantenimiento" /\ ret'.args = <<i>>) =>
               IF MantenimientosDe(i) = {}
               THEN /\ Len(mants') = Len(mants) + 1
                    /\ SubSeq(mants', 1, Len(mants)) = mants
                    /\ mants'[Len(mants')].estado = "programado"
                    /\ mants'[Len(mants')].vivienda = incidencias[i].vivienda
                    /\ mants'[Len(mants')].incidencia = i
                    /\ mants'[Len(mants')].fecha_programada = hoy
                    /\ incidencias'[i].requiere_mantenimiento
                    /\ ret'.val = "Mantenimiento"
               ELSE /\ ret'.val = "None"
                    /\ mants' = mants /\ incidencias' = incidencias
         ]_vars
    /\ [](\A i \in DOMAIN incidencias : Cardinality(MantenimientosDe(i)) <= 1)

\* a second call on an incident that an earlier call gave its maintenance,
\* and that a seguimiento resolved while the maintenance is still programado
C13_Witness ==
    /\ ret.op = "asignar_a_mantenimiento" /\ ret.val = "None"
    /\ Cardinality(MantenimientosDe(ret.args[1])) = 1
    /\ incidencias[ret.args[1]].requiere_mantenimiento
    /\ incidencias[ret.args[1]].estado = "resuelta"
    /\ incidencias[ret.args[1]].seguimientos # <<>>
    /\ \A k \in MantenimientosDe(ret.args[1]) : mants[k].estado = "programado"

\* ====================================== CuotaAdministracion, next month
MaxCuotas == 3

\* the month after the one of today
siguiente_mes == IF month(hoy) = 12 THEN 1 ELSE month(hoy) + 1
siguiente_anio == IF month(hoy) = 12 THEN year(hoy) + 1 ELSE year(hoy)

\* cls.objects.filter(año=..., mes=...).exists()
existe_cuota(anio, mes) == \E c \in cuotas : c.anio = anio /\ c.mes = mes

\* a fee created through the API; Meta.unique_together = [año, mes]
CrearCuota(anio, mes, valor_base, fecha_vencimiento, recargo_mora) ==
    /\ Cardinality(cuotas) < MaxCuotas
    /\ ~\E c \in cuotas : c.anio = anio /\ c.mes = mes
    /\ cuotas' = cuotas \cup {[pk |-> Cardinality(cuotas) + 1, anio |-> anio, mes |-> mes,
                               valor_base |-> valor_base,
                               fecha_vencimiento |-> fecha_vencimiento,
                               recargo_mora |-> recargo_mora]}
    /\ ret' = Ret("crear_cuota", <<>>, "True")
    /\ UNCHANGED <<hoy, area, reservas, mants, ledger, pagos, objs, fondo, cuota,
                   prog, incidencias, config>>

generar_cuota_siguiente_mes ==
    /\ IF existe_cuota(siguiente_anio, siguiente_mes)
       THEN /\ ret' = Ret("generar_cuota_siguiente_mes", <<>>, "None")
            /\ UNCHANGED cuotas
       ELSE IF ~\E c \in cuotas : c.anio = year(hoy) /\ c.mes = month(hoy)
       THEN /\ ret' = Ret("generar_cuota_siguiente_mes", <<>>, "None")
            /\ UNCHANGED cuotas
       ELSE IF CuotaAdministracion_str = "TypeError"
       THEN \* the descripcion of the new fee formats cuota_actual
            /\ ret' = Ret("generar_cuota_siguiente_mes", <<>>, "TypeError")
            /\ UNCHANGED cuotas
       ELSE LET cuota_actual == CHOOSE c \in cuotas :
                                   c.anio = year(hoy) /\ c.mes = month(hoy)
                dia_vencimiento == min(day(cuota_actual.fecha_vencimiento), 28)
            IN  /\ Cardinality(cuotas) < MaxCuotas
                /\ cuotas' = cuotas \cup
                      {[pk |-> Cardinality(cuotas) + 1,
                        anio |-> siguiente_anio, mes |-> siguiente_mes,
                        valor_base |-> cuota_actual.valor_base,
                        fecha_vencimiento |->
                            date(siguiente_anio, siguiente_mes, dia_vencimiento),
                        recargo_mora |-> cuota_actual.recargo_mora]}
                /\ ret' = Ret("generar_cuota_siguiente_mes", <<>>, "CuotaAdministracion")
    /\ UNCHANGED <<hoy, area, reservas, mants, ledger, pagos, objs, fondo, cuota,
                   prog, incidencias, config>>

InitCuotas ==
    /\ hoy \in DiasIniciales
    /\ AreaIdle /\ FondoIdle /\ CuotaIdle /\ ProgIdle /\ ConfigIdle
    /\ incidencias = <<>> /\ cuotas = {}
    /\ reservas = <<>> /\ mants = <<>> /\ ledger = <<>> /\ pagos = <<>> /\ objs = <<>>
    /\ ret = Ret("init", <<>>, "None")

NextCuotas ==
    \/ \E p \in {<<year(hoy), month(hoy)>>, <<siguiente_anio, siguiente_mes>>},
          v \in {1, MaxValor}, r \in {0, MaxRecargo} :
          \E f \in {date(p[1], p[2], 15), date(p[1], p[2], monthrange(p[1], p[2]))} :
             CrearCuota(p[1], p[2], v, f, r)
    \/ generar_cuota_siguiente_mes
    \/ Medianoche

SpecCuotas == InitCuotas /\ [][NextCuotas]_vars

\* ------------------------------- claims, CuotaAdministracion, next month
\* C14: generar_cuota_siguiente_mes creates a fee for the month after the
\* current one (January of the next year in December) only when none exists
\* for that month and one exists for the current month, copying valor_base and
\* recargo_mora, with due day min(current due day, 28); otherwise it returns
\* None and stores nothing; no two fees share their (año, mes).
C14_CuotaSiguienteMes ==
    /\ [][ret'.op = "generar_cuota_siguiente_mes" =>
            LET m == IF month(hoy) = 12 THEN 1 ELSE month(hoy) + 1
                a == IF month(hoy) = 12 THEN year(hoy) + 1 ELSE year(hoy)
                actuales == {c \in cuotas : c.anio = year(hoy) /\ c.mes = month(hoy)}
                siguientes == {c \in cuotas : c.anio = a /\ c.mes = m}
            IN  IF siguientes = {} /\ actuales # {}
                THEN /\ ret'.val = "CuotaAdministracion"
                     /\ \E n \in cuotas' :
                           /\ n \notin cuotas /\ cuotas' = cuotas \cup {n}
                           /\ n.anio = a /\ n.mes = m
                           /\ \E c \in actuales :
                                 /\ n.valor_base = c.valor_base
                                 /\ n.recargo_mora = c.recargo_mora
                                 /\ year(n.fecha_vencimiento) = a
                                 /\ month(n.fecha_vencimiento) = m
                                 /\ day(n.fecha_vencimiento)
                                       = min(day(c.fecha_vencimiento), 28)
                ELSE ret'.val = "None" /\ cuotas' = cuotas
         ]_vars
    /\ [](\A c1 \in cuotas : \A c2 \in cuotas :
             (c1.anio = c2.anio /\ c1.mes = c2.mes) => c1 = c2)

\* ================================================ Reserva.registrar_pago
\* registrar_pago(monto) on the stored reservation i; monto None stands for
\* the call without an amount
registrar_pago(i, monto) ==
    /\ i \in DOMAIN reservas
    /\ LET monto_ == IF monto = None THEN reservas[i].costo ELSE monto
       IN  IF reservas[i].pagada
           THEN /\ ret' = Ret("registrar_pago", <<i, monto>>, "False")
                /\ UNCHANGED <<reservas, ledger>>
           ELSE IF ~MontoPositivo(monto_)
           THEN /\ ret' = Ret("registrar_pago", <<i, monto>>, "ValueError")
                /\ UNCHANGED <<reservas, ledger>>
           ELSE /\ Len(ledger) < MaxLedger
                /\ ledger' = Append(ledger, IngresoGasto(hoy, "ingreso",
                       "reserva_area_comun", monto_, None, "registrado"))
                /\ reservas' = [reservas EXCEPT ![i] =
                       ReservaSave([@ EXCEPT !.pagada = TRUE])]
                /\ ret' = Ret("registrar_pago", <<i, monto>>, "True")
    /\ UNCHANGED <<hoy, area, mants, pagos, objs, fondo, cuota,
                   prog, incidencias, cuotas, config>>

NextPagoReserva ==
    \/ \E f \in Fechas, hi \in Horas, hf \in Horas : CrearReserva(f, hi, hf)
    \/ \E i \in 1..MaxReservas, m \in {None} \cup 0..MaxMonto : registrar_pago(i, m)

SpecPagoReserva == InitReserva /\ [][NextPagoReserva]_vars

\* ------------------------------------------------ claims, registrar_pago
\* C15: registrar_pago(monto) on a reservation with pagada = False creates one
\* income entry (categoria reserva_area_comun, monto = the given monto, or the
\* reservation's costo when monto is None), stores pagada = True and returns
\* True; with pagada = True it returns False and creates nothing.
C15_PagoDeReserva ==
    [][\A i \in DOMAIN reservas :
        (ret'.op = "registrar_pago" /\ ret'.args[1] = i) =>
            IF ~reservas[i].pagada
            THEN /\ Len(ledger') = Len(ledger) + 1
                 /\ SubSeq(ledger', 1, Len(ledger)) = ledger
                 /\ ledger'[Len(ledger')].tipo = "ingreso"
                 /\ ledger'[Len(ledger')].categoria = "reserva_area_comun"
                 /\ ledger'[Len(ledger')].monto =
                       (IF ret'.args[2] = None THEN reservas[i].costo ELSE ret'.args[2])
                 /\ reservas'[i].pagada
                 /\ ret'.val = "True"
            ELSE ret'.val = "False" /\ ledger' = ledger /\ reservas' = reservas
      ]_vars

\* ================================================= ConfiguracionReservas
MaxReservasSemana == 2
Propietarios == {"p1", "p2"}

\* the configurations: anticipation in days, duration in hours
ConfiguracionReservas ==
    [dias_anticipacion_min : {0, 1}, dias_anticipacion_max : {1, 5},
     duracion_maxima_horas : {2}, reservas_max_semana : 0..MaxReservasSemana]

\* a bug that lets the owner book one reservation past the limit
limite_alcanzado_mut(reservas_semana, reservas_max_semana) ==
    reservas_semana > reservas_max_semana

\* the comparison of the count of the week with the limit
limite_alcanzado(reservas_semana, reservas_max_semana) ==
    reservas_semana >= reservas_max_semana

\* Reserva.objects.filter(propietario, fecha_reserva__gte, fecha_reserva__lte,
\* estado__in).count()
reservas_semana(propietario, inicio_semana, fin_semana) ==
    Cardinality({k \in DOMAIN reservas :
        /\ reservas[k].propietario = propietario
        /\ reservas[k].fecha_reserva >= inicio_semana
        /\ reservas[k].fecha_reserva <= fin_semana
        /\ reservas[k].estado \in {"pendiente", "confirmada"}})

\* ConfiguracionReservas.validar_reserva: "True" for (True, ""), else the name
\* of the rule whose message is returned with False
validar_reserva(propietario, fecha_reserva, duracion_horas) ==
    LET dias_anticipacion == fecha_reserva - hoy
        inicio_semana == fecha_reserva - weekday(fecha_reserva)
        fin_semana == inicio_semana + 6
    IN  IF dias_anticipacion < config.dias_anticipacion_min THEN "dias_anticipacion_min"
        ELSE IF dias_anticipacion > config.dias_anticipacion_max
             THEN "dias_anticipacion_max"
        ELSE IF duracion_horas > config.duracion_maxima_horas
             THEN "duracion_maxima_horas"
        ELSE IF /\ config.reservas_max_semana > 0
                /\ limite_alcanzado(
                      reservas_semana(propietario, inicio_semana, fin_semana),
                      config.reservas_max_semana)
             THEN "reservas_max_semana"
        ELSE "True"

\* one call of validar_reserva on the stored configuration and reservations
ValidarReserva(propietario, fecha_reserva, duracion_horas) ==
    /\ ret.op = "init"
    /\ ret' = Ret("validar_reserva", <<propietario, fecha_reserva, duracion_horas>>,
                  validar_reserva(propietario, fecha_reserva, duracion_horas))
    /\ UNCHANGED <<hoy, area, reservas, mants, ledger, pagos, objs, fondo, cuota,
                   prog, incidencias, cuotas, config>>

\* the stored reservations of the owners: on the Sunday that ends the week of
\* today and on the Monday after it
ReservasDePropietarios ==
    [propietario : Propietarios, estado : {"pendiente", "confirmada", "cancelada"},
     fecha_reserva : {date(2023, 12, 3), date(2023, 12, 4)}]

InitValidar ==
    /\ hoy = date(2023, 11, 29)
    /\ config \in ConfiguracionReservas
    /\ \E n \in 0..MaxReservasSemana : reservas \in [1..n -> ReservasDePropietarios]
    /\ AreaIdle /\ FondoIdle /\ CuotaIdle /\ ProgIdle
    /\ incidencias = <<>> /\ cuotas = {}
    /\ mants = <<>> /\ ledger = <<>> /\ pagos = <<>> /\ objs = <<>>
    /\ ret = Ret("init", <<>>, "None")

NextValidar ==
    \E p \in Propietarios, f \in (hoy - 1)..(hoy + 6), d \in 2..3 : ValidarReserva(p, f, d)

SpecValidar == InitValidar /\ [][NextValidar]_vars

\* ----------------------------------------- claims, ConfiguracionReservas
\* the reservations of the owner that count in the week, Monday to Sunday, of
\* the date
EnLaSemana(propietario, fecha) ==
    {k \in DOMAIN reservas :
        /\ reservas[k].propietario = propietario
        /\ reservas[k].estado \in {"pendiente", "confirmada"}
        /\ reservas[k].fecha_reserva - weekday(reservas[k].fecha_reserva)
              = fecha - weekday(fecha)}

\* C16: validar_reserva returns (True, '') exactly when dias_anticipacion_min
\* <= (fecha_reserva - today).days <= dias_anticipacion_max, duracion_horas <=
\* duracion_maxima_horas, and reservas_max_semana = 0 or the owner has fewer
\* than reservas_max_semana pending or confirmed reservations in the week of
\* fecha_reserva; otherwise it returns False with the message of the first
\* failing check in that order.
C16_ValidarReserva ==
    ret.op = "validar_reserva" =>
        LET dias == ret.args[2] - hoy
            n == Cardinality(EnLaSemana(ret.args[1], ret.args[2]))
        IN  ret.val =
              IF ~(config.dias_anticipacion_min <= dias) THEN "dias_anticipacion_min"
              ELSE IF ~(dias <= config.dias_anticipacion_max) THEN "dias_anticipacion_max"
              ELSE IF ~(ret.args[3] <= config.duracion_maxima_horas)
                   THEN "duracion_maxima_horas"
              ELSE IF ~(config.reservas_max_semana = 0 \/ n < config.reservas_max_semana)
                   THEN "reservas_max_semana"
              ELSE "True"

\* an owner with two counted reservations in the week, at a limit of two, is
\* refused a reservation on the Sunday of that week
C16_Witness ==
    /\ ret.op = "validar_reserva" /\ ret.val = "reservas_max_semana"
    /\ config.reservas_max_semana = 2
    /\ Cardinality(EnLaSemana(ret.args[1], ret.args[2])) = 2
    /\ weekday(ret.args[2]) = 6
====
